---- MODULE Spec2Model ----
(***************************************************************************)
(* The signal-rule registry of mo_analysis (src/mo_analysis.py): the       *)
(* dictionary _mo_analysis_signals, the two key lists, and the three       *)
(* methods that read or write them.                                        *)
(*                                                                         *)
(* Python values are modelled as follows.                                  *)
(*   - a str is a TLA+ string, and str.format / + is \o;                   *)
(*   - None is the empty tuple <<>>, and an optional argument that is      *)
(*     given is the one-element tuple <<x>>;                               *)
(*   - the outer dict keeps its insertion order (Python >= 3.7), so it is  *)
(*     a record [keys |-> sequence of keys, items |-> key -> value];       *)
(*   - an inner rule dict is a function from field names to values.        *)
(***************************************************************************)
EXTENDS Integers, Sequences, FiniteSets, TLC

VARIABLES
    _mo_analysis_signals,   \* self._mo_analysis_signals
    _mo_analysis_key,       \* self._mo_analysis_key
    _mo_analysis_comp_key,  \* self._mo_analysis_comp_key
    last,                   \* history: the call that produced this state, what it
                            \* returned, and whether its key was registered before it
    first_seen              \* history: keys in the order of their first registration

vars == <<_mo_analysis_signals, _mo_analysis_key, _mo_analysis_comp_key,
          last, first_seen>>

---------------------------------------------------------------------------
(* Bounds and input domains *)

\* At most this many distinct keys are registered; re-registration is not limited.
MaxRules == 2

None == <<>>
Some(x) == <<x>>

\* Indicator names the caller passes, the empty string and a name that is
\* itself of the shape of a derived key included.
Names == {"", "a", "a_comp_a"}

\* The tokens of the six relational operators GT, LT, GE, LE, EQ, NE.
KnownTokens == {">", "<", ">=", "<=", "==", "!="}

\* Argument tuples of set_mo_analysis_signal (all but the indicator name).
ThresholdArgs ==
    { [buy |-> 10, sell |-> 5, condition_buy |-> ">", condition_sell |-> "<",
       buy_max |-> bm[1], sell_max |-> bm[2],
       condition_buy_max |-> bm[3], condition_sell_max |-> bm[4]] :
        bm \in { <<None, None, None, None>>,
                 <<Some(20), Some(1), Some(">"), Some("<")>>,
                 <<Some(20), None, None, None>>,
                 <<None, Some(1), None, None>> } }
    \cup
    { [buy |-> 11, sell |-> 4, condition_buy |-> cb, condition_sell |-> "<",
       buy_max |-> None, sell_max |-> None,
       condition_buy_max |-> None, condition_sell_max |-> None] :
        cb \in {"??"} }

\* Operator pairs (condition_buy, condition_sell) of set_mo_analysis_signal_compare.
CompareOps == { <<">", "<">>, <<"<", "??">> }

\* Arguments of get_mo_analysis_signal: omitted (None) or a name.
GetArgs == {None} \cup {Some(n) : n \in Names}

\* Indicator values a row can hold.
Values == {5, 15, 25}

---------------------------------------------------------------------------
(* Python helpers *)

InSeq(x, s) == \E i \in 1..Len(s) : s[i] = x

\* `k in d` for the outer dict.
Has(d, k) == k \in DOMAIN d.items

\* Python truthiness of an optional str argument: None and "" are falsy.
Truthy(arg) == arg # None /\ arg[1] # ""

EmptyDict == [keys |-> <<>>, items |-> <<>>]

\* d[k] = v on a container that puts a new key first instead of last.
DictSetFront(d, k, v) ==
    IF Has(d, k)
      THEN [d EXCEPT !.items = (k :> v) @@ d.items]
      ELSE [keys |-> <<k>> \o d.keys, items |-> (k :> v) @@ d.items]

\* d[k] = v on an insertion-ordered dict: a new key goes to the end, an
\* existing key keeps its place.
DictSet(d, k, v) ==
    IF Has(d, k)
      THEN [d EXCEPT !.items = (k :> v) @@ d.items]
      ELSE [keys |-> Append(d.keys, k), items |-> (k :> v) @@ d.items]

---------------------------------------------------------------------------
(* State after __init__ *)

NoReturn == [kind |-> "none", value |-> None]

Init ==
    /\ _mo_analysis_signals = EmptyDict
    /\ _mo_analysis_key = <<>>
    /\ _mo_analysis_comp_key = <<>>
    /\ last = [op |-> "init", key |-> "", args |-> None,
               ret |-> NoReturn, raised |-> FALSE, existed |-> FALSE]
    /\ first_seen = <<>>

\* Bookkeeping of the key order, kept apart from the dictionary's own order.
NoteKey(k) == IF InSeq(k, first_seen) THEN first_seen ELSE Append(first_seen, k)

\* The model registers a new key only while fewer than MaxRules are held.
Room(k) == Has(_mo_analysis_signals, k) \/ Len(_mo_analysis_signals.keys) < MaxRules

---------------------------------------------------------------------------
(* set_mo_analysis_signal *)

\* The membership test made against the threshold key list instead.
ThresholdIsNewByList(signals, key_list, indicator) == ~InSeq(indicator, key_list)

\* `if indicator not in self._mo_analysis_signals`
ThresholdIsNew(signals, key_list, indicator) == ~Has(signals, indicator)

\* The eight assignments with the two max operators exchanged.
StoreThresholdSwapMax(rule, a) ==
    ( ("buy" :> a.buy) @@ ("sell" :> a.sell)
      @@ ("buy_operator" :> a.condition_buy)
      @@ ("sell_operator" :> a.condition_sell)
      @@ ("buy_max" :> a.buy_max) @@ ("sell_max" :> a.sell_max)
      @@ ("buy_operator_max" :> a.condition_sell_max)
      @@ ("sell_operator_max" :> a.condition_buy_max) )
    @@ rule

\* The eight assignments into the rule's dict; fields of an earlier rule that
\* are not assigned stay.
StoreThreshold(rule, a) ==
    ( ("buy" :> a.buy) @@ ("sell" :> a.sell)
      @@ ("buy_operator" :> a.condition_buy)
      @@ ("sell_operator" :> a.condition_sell)
      @@ ("buy_max" :> a.buy_max) @@ ("sell_max" :> a.sell_max)
      @@ ("buy_operator_max" :> a.condition_buy_max)
      @@ ("sell_operator_max" :> a.condition_sell_max) )
    @@ rule

set_mo_analysis_signal(indicator, a) ==
    LET new     == ThresholdIsNew(_mo_analysis_signals, _mo_analysis_key, indicator)
        signals == IF new THEN DictSet(_mo_analysis_signals, indicator, <<>>)
                          ELSE _mo_analysis_signals
        rule    == StoreThreshold(signals.items[indicator], a)
    IN  /\ Room(indicator)
        /\ _mo_analysis_signals' = [signals EXCEPT !.items[indicator] = rule]
        /\ _mo_analysis_key' = IF new THEN Append(_mo_analysis_key, indicator)
                                      ELSE _mo_analysis_key
        /\ UNCHANGED _mo_analysis_comp_key
        /\ last' = [op |-> "threshold", key |-> indicator, args |-> a,
                    ret |-> NoReturn, raised |-> FALSE,
                    existed |-> Has(_mo_analysis_signals, indicator)]
        /\ first_seen' = NoteKey(indicator)

---------------------------------------------------------------------------
(* set_mo_analysis_signal_compare *)

\* The key with the two names in the opposite order.
compare_key_swapped(indicator_1, indicator_2) == indicator_2 \o "_comp_" \o indicator_1

\* "{ind_1}_comp_{ind_2}".format(ind_1=indicator_1, ind_2=indicator_2)
compare_key(indicator_1, indicator_2) == indicator_1 \o "_comp_" \o indicator_2

\* The five assignments into mo_analysis_dict; the sell operator goes under
\* 'condition_sell'.
StoreCompare(rule, indicator_1, indicator_2, condition_buy, condition_sell) ==
    ( ("type" :> "comparison")
      @@ ("indicator_1" :> indicator_1) @@ ("indicator_2" :> indicator_2)
      @@ ("buy_operator" :> condition_buy)
      @@ ("condition_sell" :> condition_sell) )
    @@ rule

set_mo_analysis_signal_compare(indicator_1, indicator_2, condition_buy, condition_sell) ==
    LET key     == compare_key(indicator_1, indicator_2)
        new     == ~Has(_mo_analysis_signals, key)
        signals == IF new THEN DictSet(_mo_analysis_signals, key, <<>>)
                          ELSE _mo_analysis_signals
        rule    == StoreCompare(signals.items[key], indicator_1, indicator_2,
                                condition_buy, condition_sell)
    IN  /\ Room(key)
        /\ _mo_analysis_signals' = [signals EXCEPT !.items[key] = rule]
        /\ _mo_analysis_comp_key' = IF new THEN Append(_mo_analysis_comp_key, key)
                                           ELSE _mo_analysis_comp_key
        /\ UNCHANGED _mo_analysis_key
        /\ last' = [op |-> "compare", key |-> key,
                    args |-> [indicator_1 |-> indicator_1, indicator_2 |-> indicator_2,
                              condition_buy |-> condition_buy,
                              condition_sell |-> condition_sell],
                    ret |-> NoReturn, raised |-> FALSE,
                    existed |-> Has(_mo_analysis_signals, key)]
        /\ first_seen' = NoteKey(key)

---------------------------------------------------------------------------
(* get_mo_analysis_signal *)

\* What the method returns: the rule of the key, or the whole dictionary.
get_result(signals, indicator) ==
    IF Truthy(indicator) /\ Has(signals, indicator[1])
      THEN [kind |-> "rule", value |-> signals.items[indicator[1]]]
      ELSE [kind |-> "registry", value |-> signals]

get_mo_analysis_signal(indicator) ==
    /\ UNCHANGED <<_mo_analysis_signals, _mo_analysis_key, _mo_analysis_comp_key,
                   first_seen>>
    /\ last' = [op |-> "get", key |-> "", args |-> indicator,
                ret |-> get_result(_mo_analysis_signals, indicator), raised |-> FALSE,
                existed |-> FALSE]

---------------------------------------------------------------------------

Next ==
    \/ \E indicator \in Names, a \in ThresholdArgs :
          set_mo_analysis_signal(indicator, a)
    \/ \E indicator_1 \in Names, indicator_2 \in Names, ops \in CompareOps :
          set_mo_analysis_signal_compare(indicator_1, indicator_2, ops[1], ops[2])
    \/ \E indicator \in GetArgs :
          get_mo_analysis_signal(indicator)

Spec == Init /\ [][Next]_vars

---------------------------------------------------------------------------
(* Evaluation of a threshold rule on one row *)

\* The relational operator a token stands for, applied to (a, b).
RelOp(token, a, b) ==
    CASE token = ">"  -> a > b
      [] token = "<"  -> a < b
      [] token = ">=" -> a >= b
      [] token = "<=" -> a =< b
      [] token = "==" -> a = b
      [] token = "!=" -> a # b

\* The verdict of a stored threshold rule for the indicator value v: the
\* operator applied to (v, cutoff), forced to FALSE when the max guard holds.
EvalThreshold(rule, v) ==
    [buy  |-> /\ RelOp(rule["buy_operator"], v, rule["buy"])
              /\ ~( /\ rule["buy_max"] # None
                    /\ RelOp(rule["buy_operator_max"][1], v, rule["buy_max"][1]) ),
     sell |-> /\ RelOp(rule["sell_operator"], v, rule["sell"])
              /\ ~( /\ rule["sell_max"] # None
                    /\ RelOp(rule["sell_operator_max"][1], v, rule["sell_max"][1]) )]

---------------------------------------------------------------------------
(* Vocabulary of the properties *)

Count(k, s) == Cardinality({i \in 1..Len(s) : s[i] = k})

ThresholdFields == {"buy", "sell", "buy_operator", "sell_operator",
                    "buy_max", "sell_max", "buy_operator_max", "sell_operator_max"}

\* Fields only a threshold rule has, and fields only a comparison rule has.
ThresholdOnly == {"buy", "sell", "buy_max", "sell_max",
                  "buy_operator_max", "sell_operator_max"}
CompareOnly == {"type", "indicator_1", "indicator_2", "condition_sell"}

\* The rule holds exactly the values of the threshold call with arguments a.
SameThresholdFields(rule, a) ==
    /\ ThresholdFields \subseteq DOMAIN rule
    /\ rule["buy"] = a.buy
    /\ rule["sell"] = a.sell
    /\ rule["buy_operator"] = a.condition_buy
    /\ rule["sell_operator"] = a.condition_sell
    /\ rule["buy_max"] = a.buy_max
    /\ rule["sell_max"] = a.sell_max
    /\ rule["buy_operator_max"] = a.condition_buy_max
    /\ rule["sell_operator_max"] = a.condition_sell_max

\* A max cutoff is given without its operator.
DanglingMax(a) ==
    \/ a.buy_max # None /\ a.condition_buy_max = None
    \/ a.sell_max # None /\ a.condition_sell_max = None

\* An optional operator that is given names a known operator.
KnownIfGiven(opt) == opt = None \/ opt[1] \in KnownTokens

\* The registration call c passes a token that names no relational operator.
UnknownToken(c) ==
    \/ /\ c.op = "threshold"
       /\ \/ c.args.condition_buy \notin KnownTokens
          \/ c.args.condition_sell \notin KnownTokens
          \/ ~KnownIfGiven(c.args.condition_buy_max)
          \/ ~KnownIfGiven(c.args.condition_sell_max)
    \/ /\ c.op = "compare"
       /\ \/ c.args.condition_buy \notin KnownTokens
          \/ c.args.condition_sell \notin KnownTokens

\* Every operator stored in the dictionary d names a known operator.
StoredOperatorsKnown(d) ==
    \A k \in DOMAIN d.items :
        LET rule == d.items[k] IN
        /\ \A f \in {"buy_operator", "sell_operator", "condition_sell"} \cap DOMAIN rule :
              rule[f] \in KnownTokens
        /\ \A f \in {"buy_operator_max", "sell_operator_max"} \cap DOMAIN rule :
              KnownIfGiven(rule[f])

\* The three registry fields are the same before and after the step.
RegistryUnchanged ==
    /\ _mo_analysis_signals' = _mo_analysis_signals
    /\ _mo_analysis_key' = _mo_analysis_key
    /\ _mo_analysis_comp_key' = _mo_analysis_comp_key

\* The threshold call is one the evaluation is defined for.
WellFormed(a) ==
    /\ a.condition_buy \in KnownTokens
    /\ a.condition_sell \in KnownTokens
    /\ a.buy_max # None => a.condition_buy_max # None /\ KnownIfGiven(a.condition_buy_max)
    /\ a.sell_max # None => a.condition_sell_max # None /\ KnownIfGiven(a.condition_sell_max)

---------------------------------------------------------------------------
(* C1 *)

\* C1: registering a threshold rule under a name that is already registered
\* leaves the number of entries unchanged, and a get(name) right after it
\* returns the rule holding exactly the fields of that second call (a max
\* field the call omits reads as None).
C1_ReRegisterOverwrites ==
    [][ /\ (last'.op = "threshold" /\ last'.existed)
            => /\ Len(_mo_analysis_signals'.keys) = Len(_mo_analysis_signals.keys)
               /\ DOMAIN _mo_analysis_signals'.items = DOMAIN _mo_analysis_signals.items
        /\ ( /\ last.op = "threshold" /\ last.existed
             /\ last'.op = "get" /\ last'.args = Some(last.key) )
            => /\ last'.ret.kind = "rule"
               /\ SameThresholdFields(last'.ret.value, last.args) ]_vars

\* The same statement for names other than the empty string.
C1_ReRegisterOverwritesNonEmpty ==
    [][ /\ (last'.op = "threshold" /\ last'.existed)
            => /\ Len(_mo_analysis_signals'.keys) = Len(_mo_analysis_signals.keys)
               /\ DOMAIN _mo_analysis_signals'.items = DOMAIN _mo_analysis_signals.items
        /\ ( /\ last.op = "threshold" /\ last.existed /\ last.key # ""
             /\ last'.op = "get" /\ last'.args = Some(last.key) )
            => /\ last'.ret.kind = "rule"
               /\ SameThresholdFields(last'.ret.value, last.args) ]_vars

---------------------------------------------------------------------------
(* C3 *)

\* C3: a lookup by a key that is not registered returns nothing (not a rule,
\* not the registry), and a lookup by a registered key returns that key's rule.
C3_LookupAbsentOrRule ==
    (last.op = "get" /\ last.args # None)
        => IF Has(_mo_analysis_signals, last.args[1])
             THEN /\ last.ret.kind = "rule"
                  /\ last.ret.value = _mo_analysis_signals.items[last.args[1]]
             ELSE last.ret.kind = "none"

---------------------------------------------------------------------------
(* C4 *)

\* C4: a threshold registration that gives buy_max without condition_buy_max,
\* or sell_max without condition_sell_max, fails with InvalidConfig and leaves
\* the registry as it was.
C4_DanglingMaxRejected ==
    [][ (last'.op = "threshold" /\ DanglingMax(last'.args))
            => (last'.raised /\ RegistryUnchanged) ]_vars

---------------------------------------------------------------------------
(* C5 *)

\* C5: a registration whose operator token names none of the six relational
\* operators fails with InvalidConfig and leaves the registry as it was, so
\* every stored rule has only recognised operators.
C5_UnknownOperatorRejected ==
    [][ /\ UnknownToken(last') => (last'.raised /\ RegistryUnchanged)
        /\ StoredOperatorsKnown(_mo_analysis_signals') ]_vars

---------------------------------------------------------------------------
(* C2 *)

\* The comparison call c stored its rule under the string a + "_comp_" + b.
StoredUnderDerivedKey(c, d) ==
    LET k == c.args.indicator_1 \o "_comp_" \o c.args.indicator_2 IN
    /\ Has(d, k)
    /\ d.items[k]["indicator_1"] = c.args.indicator_1
    /\ d.items[k]["indicator_2"] = c.args.indicator_2

\* The step registers (Y,X) right after (X,Y) was registered, X # Y.
SwappedPairStep ==
    /\ last.op = "compare" /\ last'.op = "compare"
    /\ last.args.indicator_1 # last.args.indicator_2
    /\ last'.args.indicator_1 = last.args.indicator_2
    /\ last'.args.indicator_2 = last.args.indicator_1

\* C2 as stated: a comparison rule is stored under exactly a + "_comp_" + b,
\* and registering (X,Y) and then (Y,X) for any two different names leaves two
\* distinct entries, one under X_comp_Y and one under Y_comp_X.
C2_SwappedPairAlwaysDistinct ==
    [][ /\ last'.op = "compare" => StoredUnderDerivedKey(last', _mo_analysis_signals')
        /\ SwappedPairStep
            => LET xy == last.args.indicator_1 \o "_comp_" \o last.args.indicator_2
                   yx == last'.args.indicator_1 \o "_comp_" \o last'.args.indicator_2
               IN  /\ xy # yx
                   /\ Count(xy, _mo_analysis_signals'.keys) = 1
                   /\ Count(yx, _mo_analysis_signals'.keys) = 1
                   /\ _mo_analysis_signals'.items[xy]["indicator_1"] = last.args.indicator_1
                   /\ _mo_analysis_signals'.items[yx]["indicator_1"] = last'.args.indicator_1 ]_vars

\* C2 (amended): a comparison rule is stored under exactly a + "_comp_" + b;
\* registering (X,Y) and then (Y,X), X # Y, leaves two distinct entries, the
\* first still the rule of (X,Y), when the strings X_comp_Y and Y_comp_X
\* differ, and a single entry holding the rule of (Y,X) when they are the
\* same string.
C2_SwappedPairDistinctIffKeysDiffer ==
    [][ /\ last'.op = "compare" => StoredUnderDerivedKey(last', _mo_analysis_signals')
        /\ SwappedPairStep
            => LET xy == last.args.indicator_1 \o "_comp_" \o last.args.indicator_2
                   yx == last'.args.indicator_1 \o "_comp_" \o last'.args.indicator_2
               IN  /\ Count(xy, _mo_analysis_signals'.keys) = 1
                   /\ Count(yx, _mo_analysis_signals'.keys) = 1
                   /\ _mo_analysis_signals'.items[yx]["indicator_1"] = last'.args.indicator_1
                   /\ xy # yx =>
                        _mo_analysis_signals'.items[xy]["indicator_1"] = last.args.indicator_1
                   /\ xy = yx =>
                        Len(_mo_analysis_signals'.keys) = Len(_mo_analysis_signals.keys) ]_vars

\* (Y,X) was just registered, X # Y, and the rules of (X,Y) and of (Y,X) are
\* both held, under two different keys.
C2_Witness ==
    /\ last.op = "compare"
    /\ last.args.indicator_1 # last.args.indicator_2
    /\ LET yx == last.args.indicator_1 \o "_comp_" \o last.args.indicator_2
           xy == last.args.indicator_2 \o "_comp_" \o last.args.indicator_1
       IN  /\ xy # yx
           /\ Has(_mo_analysis_signals, xy) /\ Has(_mo_analysis_signals, yx)
           /\ "indicator_1" \in DOMAIN _mo_analysis_signals.items[xy]
           /\ _mo_analysis_signals.items[xy]["indicator_1"] = last.args.indicator_2
           /\ _mo_analysis_signals.items[yx]["indicator_1"] = last.args.indicator_1

---------------------------------------------------------------------------
(* C6 *)

\* C6: listing the registry yields its keys in the order of each key's first
\* registration, each key once; re-registering a key does not move it and
\* adds no second entry.
C6_ListingInFirstRegistrationOrder ==
    /\ _mo_analysis_signals.keys = first_seen
    /\ \A k \in DOMAIN _mo_analysis_signals.items :
          Count(k, _mo_analysis_signals.keys) = 1
    /\ \A i \in 1..Len(_mo_analysis_signals.keys) :
          Has(_mo_analysis_signals, _mo_analysis_signals.keys[i])

\* The first of two registered keys was just registered again, and is still first.
C6_Witness ==
    /\ last.op \in {"threshold", "compare"}
    /\ last.existed
    /\ Len(_mo_analysis_signals.keys) = 2
    /\ _mo_analysis_signals.keys[1] = last.key
    /\ first_seen[1] = last.key

---------------------------------------------------------------------------
(* C7 *)

\* C7: after register_comparison(a, b, buy_op, sell_op), get("a_comp_b")
\* returns a comparison rule whose indicators are a and b, whose buy_operator
\* is buy_op and whose sell_operator (the field name a threshold rule uses) is
\* sell_op.
C7_CompareRuleFields ==
    [][ ( /\ last.op = "compare" /\ last'.op = "get"
          /\ last'.args = Some(last.args.indicator_1 \o "_comp_" \o last.args.indicator_2) )
            => /\ last'.ret.kind = "rule"
               /\ LET rule == last'.ret.value IN
                  /\ rule["type"] = "comparison"
                  /\ rule["indicator_1"] = last.args.indicator_1
                  /\ rule["indicator_2"] = last.args.indicator_2
                  /\ rule["buy_operator"] = last.args.condition_buy
                  /\ "sell_operator" \in DOMAIN rule
                  /\ rule["sell_operator"] = last.args.condition_sell ]_vars

---------------------------------------------------------------------------
(* C8 *)

\* The call of the worked example: buy = 10 with ">", buy_max = 20 with ">".
ExampleCall(a) ==
    /\ a.buy = 10 /\ a.condition_buy = ">"
    /\ a.buy_max = Some(20) /\ a.condition_buy_max = Some(">")

---------------------------------------------------------------------------
(* C9 *)

\* C9: after a registration under a key that already held a rule, the rule
\* under that key is wholly of the last call's variant: a comparison rule has
\* no threshold cutoffs or max fields, a threshold rule has no comparison type
\* tag or indicator pair.
C9_NoLeftoverFields ==
    /\ (last.op = "compare" /\ last.existed)
          => DOMAIN _mo_analysis_signals.items[last.key] \cap ThresholdOnly = {}
    /\ (last.op = "threshold" /\ last.existed)
          => DOMAIN _mo_analysis_signals.items[last.key] \cap CompareOnly = {}

---------------------------------------------------------------------------
(* C10 *)

\* C10: the two key lists partition the registry's keys: every key of
\* _mo_analysis_signals occurs exactly once in exactly one of the lists, and
\* neither list holds a key that is not registered or holds a key twice.
C10_KeyListsPartition ==
    /\ \A k \in DOMAIN _mo_analysis_signals.items :
          Count(k, _mo_analysis_key) + Count(k, _mo_analysis_comp_key) = 1
    /\ \A i \in 1..Len(_mo_analysis_key) :
          /\ Has(_mo_analysis_signals, _mo_analysis_key[i])
          /\ Count(_mo_analysis_key[i], _mo_analysis_key) = 1
    /\ \A i \in 1..Len(_mo_analysis_comp_key) :
          /\ Has(_mo_analysis_signals, _mo_analysis_comp_key[i])
          /\ Count(_mo_analysis_comp_key[i], _mo_analysis_comp_key) = 1

\* Both lists hold a key, and a threshold registration has just reused the
\* key of a comparison rule.
C10_Witness ==
    /\ Len(_mo_analysis_key) >= 1
    /\ Len(_mo_analysis_comp_key) >= 1
    /\ last.op = "threshold"
    /\ last.existed
    /\ Count(last.key, _mo_analysis_comp_key) = 1

====
